---- MODULE Spec2Model ----
(***************************************************************************)
(* Model of generate_rss.py: one run of main() loads the persisted feed,   *)
(* fetches one snapshot per configured instrument, builds the daily        *)
(* summary entry, merges it into the loaded entries by guid, sorts by      *)
(* publication date, truncates to --max-items and writes the feed.         *)
(*                                                                         *)
(* Text is modelled as a sequence of tokens (a guid "daily-2024-01-05" is  *)
(* <<"daily-", "2024-01-05">>), so prefix tests, stripping and formatting  *)
(* are computed, not assumed.  A pubDate text is a record telling which    *)
(* of the shapes parsedate_to_datetime distinguishes it has.               *)
(***************************************************************************)
EXTENDS Integers, Sequences, FiniteSets, TLC

VARIABLES feed, now_utc, runs, pc, raised_in, exit_code, args, parsed,
          existing, merged, snapshots, idx, summary_item, sorted_items,
          wrote, prev

vars == <<feed, now_utc, runs, pc, raised_in, exit_code, args, parsed,
          existing, merged, snapshots, idx, summary_item, sorted_items,
          wrote, prev>>

(***************************** bounds **************************************)
\* number of runs of main() in one behaviour
MaxRuns == 2
\* wall-clock seconds run from 1 to MaxClock
MaxClock == 2
\* number of <item> nodes in the feed file found by the first run
MaxFeedLen == 2
\* --max-items ranges over -1 .. MaxCap
MaxCap == 2

(************************* program constants *******************************)
\* datetime.min.replace(tzinfo=timezone.utc): below every instant of the model
DatetimeMin == 0

\* trade dates in ascending (string) order
Dates == <<"2024-01-04", "2024-01-05">>
DateSet == {Dates[i] : i \in 1..Len(Dates)}
DateRank(d) == CHOOSE i \in 1..Len(Dates) : Dates[i] = d

\* symbols in ascending (string) order
SymbolOrder == <<"AAPL", "MSFT">>
SymbolRank(s) == CHOOSE i \in 1..Len(SymbolOrder) : SymbolOrder[i] = s

\* the instrument list of stock_list.json, in file order
configs == << [name |-> "Microsoft", symbol |-> "MSFT"],
              [name |-> "Apple", symbol |-> "AAPL"] >>

\* the latest bars a fetch can return: the trade date and the sign of Change%
\* (close at or above open, close below open)
Bars == { [trade_date |-> "2024-01-04", change_pct |-> 1],
          [trade_date |-> "2024-01-05", change_pct |-> 0 - 1] }

\* values of --max-items: argparse type=int accepts any integer
MaxItemsValues == (0 - 1)..MaxCap

Min(a, b) == IF a < b THEN a ELSE b
Max(a, b) == IF a > b THEN a ELSE b

(***************************** text ****************************************)
EmptyStr == << >>
base_link == <<"https://example.github.io/stock-rss", "/feed.xml">>

RECURSIVE LStrip(_)
LStrip(s) == IF s # << >> /\ Head(s) = " " THEN LStrip(Tail(s)) ELSE s

RECURSIVE RStrip(_)
RStrip(s) == IF s # << >> /\ s[Len(s)] = " "
             THEN RStrip(SubSeq(s, 1, Len(s) - 1)) ELSE s

\* str.strip()
Strip(s) == RStrip(LStrip(s))

\* k.startswith("daily-")
StartsWithDaily(k) == Len(k) >= 1 /\ k[1] = "daily-"

(**************************** pubDate text *********************************)
EmptyPubDate == [kind |-> "empty", t |-> 0, off |-> 0]
GarbagePubDate == [kind |-> "garbage", t |-> 0, off |-> 0]

\* email.utils.format_datetime(now_utc) for an aware UTC datetime
format_datetime(t) == [kind |-> "rfc2822", t |-> t, off |-> 0]

\* email.utils.parsedate_to_datetime: raises on text that is no date; a zone
\* of -0000 gives a naive datetime, any other zone an aware one whose instant
\* is the local time less the offset
parsedate_to_datetime(s) ==
    CASE s.kind = "rfc2822" -> [raised |-> FALSE, aware |-> TRUE, t |-> s.t - s.off]
      [] s.kind = "rfc2822-0000" -> [raised |-> FALSE, aware |-> FALSE, t |-> s.t]
      [] OTHER -> [raised |-> TRUE, aware |-> TRUE, t |-> DatetimeMin]

\* the key of the sort of main()
SortKey(x) ==
    IF x.pub_date # EmptyPubDate
    THEN parsedate_to_datetime(x.pub_date)
    ELSE [raised |-> FALSE, aware |-> TRUE, t |-> DatetimeMin]

(****************************** dict ***************************************)
\* A dict is a sequence of FeedItems with pairwise distinct guids, in
\* insertion order.
HasKey(d, k) == \E i \in 1..Len(d) : d[i].guid = k
Lookup(d, k) == d[CHOOSE i \in 1..Len(d) : d[i].guid = k]

DictPutAppend(d, it) == Append(d, it)

\* d[it.guid] = it: an existing key keeps its position, a new key goes last
DictPut(d, it) ==
    IF HasKey(d, it.guid)
    THEN [i \in 1..Len(d) |-> IF d[i].guid = it.guid THEN it ELSE d[i]]
    ELSE Append(d, it)

(*************************** feed document *********************************)
MissingFile == [kind |-> "missing", items |-> << >>]
MalformedFile == [kind |-> "malformed", items |-> << >>]
NoChannelFile == [kind |-> "nochannel", items |-> << >>]

\* one <item> node written by write_feed
ItemToNode(it) ==
    [title |-> it.title, link |-> it.link, guid |-> it.guid,
     pubDate |-> it.pub_date, description |-> it.description]

write_feed(items) ==
    [kind |-> "rss", items |-> [i \in 1..Len(items) |-> ItemToNode(items[i])]]

\* the FeedItem parse_existing_items builds from one <item> node
NodeToItem(n) ==
    [guid |-> Strip(n.guid), title |-> n.title, description |-> n.description,
     pub_date |-> n.pubDate, link |-> n.link]

RECURSIVE LoadNodes(_, _)
LoadNodes(nodes, out) ==
    IF nodes = << >> THEN out
    ELSE IF Strip(Head(nodes).guid) = EmptyStr
         THEN LoadNodes(Tail(nodes), out)
         ELSE LoadNodes(Tail(nodes), DictPut(out, NodeToItem(Head(nodes))))

\* parse_existing_items(path): ET.parse raises on a document that is not
\* well-formed XML
parse_existing_items(doc) ==
    CASE doc.kind = "missing" -> [raised |-> FALSE, out |-> << >>]
      [] doc.kind = "malformed" -> [raised |-> TRUE, out |-> << >>]
      [] doc.kind = "nochannel" -> [raised |-> FALSE, out |-> << >>]
      [] OTHER -> [raised |-> FALSE, out |-> LoadNodes(doc.items, << >>)]

FilterAll(d) == d

\* {k: v for k, v in ... .items() if k.startswith("daily-")}
FilterDaily(d) == SelectSeq(d, LAMBDA it : StartsWithDaily(it.guid))

(****************************** sorting ************************************)
\* comparing a naive with an aware datetime raises TypeError
SortRaises(items) ==
    \/ \E i \in 1..Len(items) : SortKey(items[i]).raised
    \/ \E i, j \in 1..Len(items) : SortKey(items[i]).aware # SortKey(items[j]).aware

FirstBelow(s, x) ==
    IF \E i \in 1..Len(s) : SortKey(s[i]).t < SortKey(x).t
    THEN CHOOSE i \in 1..Len(s) :
            /\ SortKey(s[i]).t < SortKey(x).t
            /\ \A j \in 1..(i - 1) : SortKey(s[j]).t >= SortKey(x).t
    ELSE Len(s) + 1

FirstAbove(s, x) ==
    IF \E i \in 1..Len(s) : SortKey(s[i]).t > SortKey(x).t
    THEN CHOOSE i \in 1..Len(s) :
            /\ SortKey(s[i]).t > SortKey(x).t
            /\ \A j \in 1..(i - 1) : SortKey(s[j]).t <= SortKey(x).t
    ELSE Len(s) + 1

InsertAt(s, p, x) == SubSeq(s, 1, p - 1) \o <<x>> \o SubSeq(s, p, Len(s))

RECURSIVE SortFrom(_, _)
SortFrom(rest, acc) ==
    IF rest = << >> THEN acc
    ELSE SortFrom(Tail(rest), InsertAt(acc, FirstBelow(acc, Head(rest)), Head(rest)))

RECURSIVE SortFromAsc(_, _)
SortFromAsc(rest, acc) ==
    IF rest = << >> THEN acc
    ELSE SortFromAsc(Tail(rest), InsertAt(acc, FirstAbove(acc, Head(rest)), Head(rest)))

SortedAsc(items) == SortFromAsc(items, << >>)

\* sorted(items, key=..., reverse=True): stable, latest first
SortedDesc(items) == SortFrom(items, << >>)

\* s[:n] with Python's meaning of a negative n
Truncate(s, n) ==
    IF n >= 0 THEN SubSeq(s, 1, Min(n, Len(s)))
    ELSE SubSeq(s, 1, Max(Len(s) + n, 0))

(*************************** build_summary_item ****************************)
MaxTradeDate(snaps) ==
    Dates[CHOOSE r \in 1..Len(Dates) :
            /\ \E i \in 1..Len(snaps) : DateRank(snaps[i].trade_date) = r
            /\ \A i \in 1..Len(snaps) : DateRank(snaps[i].trade_date) <= r]

UpCount(snaps) == Cardinality({i \in 1..Len(snaps) : snaps[i].change_pct >= 0})

\* sorted(snapshots, key=lambda x: x.symbol); symbols of a run are distinct
SortBySymbol(snaps) ==
    LET ranks == {SymbolRank(snaps[i].symbol) : i \in 1..Len(snaps)}
        nth(k) == CHOOSE i \in 1..Len(snaps) :
                    Cardinality({r \in ranks : r < SymbolRank(snaps[i].symbol)}) = k - 1
    IN [k \in 1..Len(snaps) |-> snaps[nth(k)]]

RECURSIVE Rows(_)
Rows(snaps) ==
    IF snaps = << >> THEN << >>
    ELSE <<Head(snaps).name, Head(snaps).symbol, ToString(Head(snaps).change_pct)>>
         \o Rows(Tail(snaps))

SummaryTitle(snaps) ==
    <<"summary", MaxTradeDate(snaps), ToString(UpCount(snaps)),
      ToString(Len(snaps) - UpCount(snaps))>>

SummaryDescription(snaps, now) ==
    <<"table">> \o Rows(SortBySymbol(snaps)) \o <<"generated", ToString(now)>>

SummaryGuidNoSuffix(snaps, now, manual) == <<"daily-", MaxTradeDate(snaps)>>

SummaryGuid(snaps, now, manual) ==
    IF manual
    THEN <<"daily-", MaxTradeDate(snaps), "-manual-", ToString(now)>>
    ELSE <<"daily-", MaxTradeDate(snaps)>>

build_summary_item(snaps, now, manual) ==
    [guid |-> SummaryGuid(snaps, now, manual),
     title |-> SummaryTitle(snaps),
     description |-> SummaryDescription(snaps, now),
     pub_date |-> format_datetime(now),
     link |-> base_link]

(************************* the feed found at first *************************)
OldTitle == <<"old">>
OldBody == <<"old body">>

NodeOf(g, p) ==
    [title |-> OldTitle, link |-> base_link, guid |-> g, pubDate |-> p,
     description |-> OldBody]

NodePool ==
    { NodeOf(<<"daily-", "2024-01-04">>, format_datetime(1)),
      NodeOf(<<"daily-", "2024-01-05">>, [kind |-> "rfc2822", t |-> 2, off |-> 1]),
      NodeOf(<<" ", "daily-", "2024-01-05", " ">>, EmptyPubDate),
      NodeOf(<<"daily-", "2024-01-03">>, format_datetime(MaxClock + 1)),
      NodeOf(<<"daily-", "2024-01-02">>, GarbagePubDate),
      NodeOf(<<"daily-", "2024-01-01">>, [kind |-> "rfc2822-0000", t |-> 2, off |-> 0]),
      NodeOf(<<"AAPL", "-", "2024-01-04">>, format_datetime(2)),
      NodeOf(EmptyStr, format_datetime(2)) }

SeqsUpTo(S, n) == UNION {[1..k -> S] : k \in 0..n}

InitialFeeds ==
    {MissingFile, MalformedFile, NoChannelFile}
    \cup {[kind |-> "rss", items |-> s] : s \in SeqsUpTo(NodePool, MaxFeedLen)}

NoItem == [guid |-> EmptyStr, title |-> EmptyStr, description |-> EmptyStr,
           pub_date |-> EmptyPubDate, link |-> EmptyStr]
NoArgs == [max_items |-> 0, manual |-> FALSE]
NoPrev == [wrote |-> FALSE, manual |-> FALSE, now |-> 0, item |-> NoItem]

(****************************** actions ************************************)
Init ==
    /\ feed \in InitialFeeds
    /\ now_utc = 1
    /\ runs = 0
    /\ pc = "idle"
    /\ raised_in = "none"
    /\ exit_code = "none"
    /\ args = NoArgs
    /\ parsed = << >>
    /\ existing = << >>
    /\ merged = << >>
    /\ snapshots = << >>
    /\ idx = 1
    /\ summary_item = NoItem
    /\ sorted_items = << >>
    /\ wrote = FALSE
    /\ prev = NoPrev

Finished == pc \in {"returned", "raised"}

\* a new invocation: parse_args, the clock, the load of the feed and the
\* filter to the day-prefixed entries
StartRun ==
    /\ pc = "idle" \/ Finished
    /\ runs < MaxRuns
    /\ \E mi \in MaxItemsValues, man \in BOOLEAN, now \in now_utc..MaxClock :
        /\ args' = [max_items |-> mi, manual |-> man]
        /\ now_utc' = now
    /\ runs' = runs + 1
    /\ prev' = IF pc = "idle" THEN NoPrev
               ELSE [wrote |-> wrote, manual |-> args.manual, now |-> now_utc,
                     item |-> summary_item]
    /\ LET r == parse_existing_items(feed)
       IN IF r.raised
          THEN /\ pc' = "raised"
               /\ raised_in' = "parse_existing_items"
               /\ parsed' = << >>
               /\ existing' = << >>
               /\ merged' = << >>
          ELSE /\ pc' = "fetch"
               /\ raised_in' = "none"
               /\ parsed' = r.out
               /\ existing' = FilterDaily(r.out)
               /\ merged' = FilterDaily(r.out)
    /\ exit_code' = "none"
    /\ snapshots' = << >>
    /\ idx' = 1
    /\ summary_item' = NoItem
    /\ sorted_items' = << >>
    /\ wrote' = FALSE
    /\ UNCHANGED feed

\* fetch_latest_snapshot returns None: hist.empty
FetchNoData ==
    /\ pc = "fetch"
    /\ idx <= Len(configs)
    /\ idx' = idx + 1
    /\ UNCHANGED <<feed, now_utc, runs, pc, raised_in, exit_code, args, parsed,
                   existing, merged, snapshots, summary_item, sorted_items,
                   wrote, prev>>

\* fetch_latest_snapshot returns a snapshot of the latest bar
FetchData ==
    /\ pc = "fetch"
    /\ idx <= Len(configs)
    /\ \E bar \in Bars :
        snapshots' = Append(snapshots,
                            [name |-> configs[idx].name,
                             symbol |-> configs[idx].symbol,
                             trade_date |-> bar.trade_date,
                             change_pct |-> bar.change_pct])
    /\ idx' = idx + 1
    /\ UNCHANGED <<feed, now_utc, runs, pc, raised_in, exit_code, args, parsed,
                   existing, merged, summary_item, sorted_items, wrote, prev>>

\* fetch_latest_snapshot raises (the download, or a conversion of the bar's
\* fields); neither it nor main() catches anything
FetchRaises ==
    /\ pc = "fetch"
    /\ idx <= Len(configs)
    /\ pc' = "raised"
    /\ raised_in' = "fetch_latest_snapshot"
    /\ UNCHANGED <<feed, now_utc, runs, exit_code, args, parsed, existing,
                   merged, snapshots, idx, summary_item, sorted_items, wrote,
                   prev>>

\* if not snapshots: return 1
NoSnapshots ==
    /\ pc = "fetch"
    /\ idx > Len(configs)
    /\ snapshots = << >>
    /\ pc' = "returned"
    /\ exit_code' = "1"
    /\ UNCHANGED <<feed, now_utc, runs, raised_in, args, parsed, existing,
                   merged, snapshots, idx, summary_item, sorted_items, wrote,
                   prev>>

\* build the summary, put it into merged, sort, truncate, write, return 0
MergeAndWrite ==
    /\ pc = "fetch"
    /\ idx > Len(configs)
    /\ snapshots # << >>
    /\ LET it == build_summary_item(snapshots, now_utc, args.manual)
           m == DictPut(merged, it)
       IN /\ summary_item' = it
          /\ merged' = m
          /\ IF SortRaises(m)
             THEN /\ pc' = "raised"
                  /\ raised_in' = "sorted"
                  /\ UNCHANGED <<feed, sorted_items, wrote, exit_code>>
             ELSE /\ sorted_items' = Truncate(SortedDesc(m), args.max_items)
                  /\ feed' = write_feed(Truncate(SortedDesc(m), args.max_items))
                  /\ wrote' = TRUE
                  /\ pc' = "returned"
                  /\ exit_code' = "0"
                  /\ UNCHANGED raised_in
    /\ UNCHANGED <<now_utc, runs, args, parsed, existing, snapshots, idx, prev>>

Next ==
    \/ StartRun
    \/ FetchNoData
    \/ FetchData
    \/ FetchRaises
    \/ NoSnapshots
    \/ MergeAndWrite

Spec == Init /\ [][Next]_vars

(************************ what the claims speak of *************************)
\* main() returned 0: the feed file holds what this run wrote
Returned0 == pc = "returned" /\ exit_code = "0"

\* the instant the sort orders a written node by
InstantOf(node) == SortKey(NodeToItem(node)).t

InFeed(g) == \E i \in 1..Len(feed.items) : feed.items[i].guid = g
CountInFeed(g) == Cardinality({i \in 1..Len(feed.items) : feed.items[i].guid = g})

\* --max-items is a positive integer, as the run parameters are documented
PositiveCap == args.max_items >= 1

\* the entries of the merged mapping that the truncation evicted
Evicted == {i \in 1..Len(merged) : ~InFeed(merged[i].guid)}

BoundedAndMostRecent ==
    /\ Len(feed.items) <= args.max_items
    /\ \A i \in Evicted : \A j \in 1..Len(feed.items) :
          SortKey(merged[i]).t <= InstantOf(feed.items[j])

\* what main() computes when it merges summary_item once more, into the feed
\* it has just written
SecondMerge == DictPut(FilterDaily(parse_existing_items(feed).out), summary_item)
SecondOutput == Truncate(SortedDesc(SecondMerge), args.max_items)

(* C1: a successful run writes at most max-items entries, and no evicted    *)
(* entry is strictly later than a retained one, for every --max-items.     *)
C1_BoundedMostRecent == Returned0 => BoundedAndMostRecent

\* the same for the values of --max-items that are not negative
C1_BoundedNonNegativeCap == (Returned0 /\ args.max_items >= 0) => BoundedAndMostRecent

(* C2: the written entries have pairwise distinct guids, and when the new  *)
(* summary has the guid of a loaded entry the output holds exactly one     *)
(* entry of that guid, with the new title, body and publication date.      *)
UniqueGuids ==
    \A i, j \in 1..Len(feed.items) :
        feed.items[i].guid = feed.items[j].guid => i = j

FreshWhereKept ==
    \A i \in 1..Len(feed.items) :
        feed.items[i].guid = summary_item.guid
            => feed.items[i] = ItemToNode(summary_item)

C2_UniqueAndReplaced ==
    (Returned0 /\ PositiveCap) =>
        /\ UniqueGuids
        /\ HasKey(existing, summary_item.guid) =>
              /\ CountInFeed(summary_item.guid) = 1
              /\ FreshWhereKept

(* C2 as amended: distinct guids; at most one entry has the summary's guid *)
(* and it carries the new content; it is there whenever the merged mapping *)
(* fits into max-items.                                                    *)
C2_UniqueAndFreshIfKept ==
    Returned0 =>
        /\ UniqueGuids
        /\ FreshWhereKept
        /\ Len(merged) <= args.max_items => CountInFeed(summary_item.guid) = 1

C2_Witness ==
    /\ Returned0
    /\ HasKey(existing, summary_item.guid)
    /\ Lookup(existing, summary_item.guid).title # summary_item.title
    /\ Lookup(existing, summary_item.guid).pub_date # summary_item.pub_date
    /\ InFeed(summary_item.guid)
    /\ Len(feed.items) >= 2

(* C3: in non-manual mode, merging the same new entry into the result of   *)
(* the first merge gives the result of the first merge again.              *)
C3_Idempotent ==
    (Returned0 /\ ~args.manual) =>
        /\ ~SortRaises(SecondMerge)
        /\ SecondOutput = sorted_items

\* the same for the values of --max-items that are not negative
C3_IdempotentNonNegativeCap ==
    (Returned0 /\ ~args.manual /\ args.max_items >= 0) =>
        /\ ~SortRaises(SecondMerge)
        /\ SecondOutput = sorted_items

(* C4: the written entries are in descending order of publication instant: *)
(* an entry with a later instant stands before one with an earlier instant.*)
C4_SortedDescending ==
    Returned0 =>
        \A i, j \in 1..Len(feed.items) :
            InstantOf(feed.items[i]) > InstantOf(feed.items[j]) => i < j

C4_Witness ==
    /\ Returned0
    /\ Len(feed.items) >= 2
    /\ Len(merged) >= 2
    /\ merged[Len(merged)].guid = summary_item.guid
    /\ feed.items[1].guid = summary_item.guid
    /\ InstantOf(feed.items[1]) > InstantOf(feed.items[2])

(* C5: a run returns 0 and writes the feed exactly when some instrument    *)
(* yielded a snapshot; when none did it returns 1 and writes nothing.      *)
C5_ExitContract ==
    (Finished /\ PositiveCap) =>
        /\ (exit_code = "0" /\ wrote) <=> (snapshots # << >>)
        /\ (idx > Len(configs) /\ snapshots = << >>) => (exit_code = "1" /\ ~wrote)

\* the same for the runs in which main() returns
C5_ExitContractOfReturningRuns ==
    pc = "returned" =>
        /\ (exit_code = "0" /\ wrote) <=> (snapshots # << >>)
        /\ snapshots = << >> => (exit_code = "1" /\ ~wrote)

(* C6: an error raised while fetching one instrument never ends the run.   *)
C6_FetchFailureIsolated == PositiveCap => raised_in # "fetch_latest_snapshot"

(* C7: loading the feed never raises; a missing file, a document without   *)
(* channel and a malformed document load as the empty mapping, and no      *)
(* loaded entry lacks a guid.                                              *)
C7_LoadNeverFails ==
    /\ PositiveCap => raised_in # "parse_existing_items"
    /\ (pc = "fetch" /\ feed.kind \in {"missing", "nochannel", "malformed"})
          => parsed = << >>
    /\ \A i \in 1..Len(parsed) : parsed[i].guid # EmptyStr

(* C8: the sort never raises, and an entry whose publication date is empty *)
(* or unparseable stands below every entry with a valid one.               *)
Undated(node) == node.pubDate.kind \in {"empty", "garbage"}

C8_SortTotal ==
    /\ PositiveCap => raised_in # "sorted"
    /\ Returned0 =>
          \A i, j \in 1..Len(feed.items) :
              (Undated(feed.items[i]) /\ ~Undated(feed.items[j])) => j < i

(* C9: every entry of the prior feed whose guid lacks the "daily-" prefix  *)
(* is still in the feed, unchanged, after the run.                         *)
NonDailyLoaded == {i \in 1..Len(parsed) : ~StartsWithDaily(parsed[i].guid)}

TradeDateOf(it) == it.guid[2]

TwoManualRuns ==
    /\ Returned0
    /\ prev.wrote
    /\ args.manual
    /\ prev.manual
    /\ prev.now # now_utc
    /\ TradeDateOf(prev.item) = TradeDateOf(summary_item)

C10_BothSurvive ==
    (TwoManualRuns /\ PositiveCap /\ HasKey(parsed, prev.item.guid)) =>
        /\ prev.item.guid # summary_item.guid
        /\ InFeed(prev.item.guid)
        /\ InFeed(summary_item.guid)

(* C10 as amended: the guids are distinct and the second run does not      *)
(* overwrite the first run's entry: if the feed still held it when the     *)
(* second run loaded the feed, the merged mapping holds both entries, and  *)
(* the output holds both whenever the merged mapping fits into max-items.  *)
C10_NoOverwrite ==
    TwoManualRuns =>
        /\ prev.item.guid # summary_item.guid
        /\ HasKey(parsed, prev.item.guid) =>
              /\ HasKey(merged, prev.item.guid)
              /\ Lookup(merged, prev.item.guid) = prev.item
              /\ HasKey(merged, summary_item.guid)
              /\ Len(merged) <= args.max_items =>
                    /\ InFeed(prev.item.guid)
                    /\ InFeed(summary_item.guid)

C10_Witness ==
    /\ TwoManualRuns
    /\ InFeed(prev.item.guid)
    /\ InFeed(summary_item.guid)

====
